---------------------------- MODULE Spec2Model ----------------------------
(***************************************************************************)
(* Model of src/lib.rs of dif-rust: the ImageHash value, its distance      *)
(* method, and the three hashing functions ahash, dhash and phash.         *)
(*                                                                         *)
(* Vectors are 0-indexed in the source and 1-indexed here: source index c  *)
(* is element c + 1 of the corresponding sequence.                         *)
(***************************************************************************)
EXTENDS Integers, Sequences, FiniteSets

VARIABLES
    heap,   \* the ImageHash objects the caller holds (a sequence)
    last    \* the most recent call: its arguments, locals and outcome

vars == <<heap, last>>

---------------------------------------------------------------------------
(* Bounds of the model *)

MaxN == 9        \* hash_size ranges over 0..MaxN
MaxF == 2        \* highfreq_factor ranges over 0..MaxF

HashSizes == 0..MaxN
Factors == 0..MaxF

---------------------------------------------------------------------------
(* Inputs: the file behind fpath, seen through image::open, grayscale and  *)
(* resize_exact.  "unreadable" is a path image::open fails on; every other *)
(* value is a decodable picture, given by the luminance the resized grid   *)
(* has at (x, y).                                                          *)

Pictures == {"black", "white", "grey", "asc", "desc", "checker", "dot"}
Files == Pictures \cup {"unreadable"}

\* image::open(fpath): Ok(im) or Err
open(fpath) == IF fpath \in Pictures THEN "Ok" ELSE "Err"

\* u8 luminance of the resized grayscale picture at (x, y)
to_luma(fpath, x, y) ==
    CASE fpath = "black"   -> 0
      [] fpath = "white"   -> 255
      [] fpath = "grey"    -> 128
      [] fpath = "asc"     -> IF 8 * x > 255 THEN 255 ELSE 8 * x
      [] fpath = "desc"    -> IF 8 * x > 255 THEN 0 ELSE 255 - 8 * x
      [] fpath = "checker" -> IF (x + y) % 2 = 0 THEN 255 ELSE 0
      [] fpath = "dot"     -> IF x = 0 /\ y = 0 THEN 255 ELSE 0

\* resize_exact is outside the repository.  For a zero width or height the
\* library either returns an empty grid or panics; both are kept.
ResizeOutcomes == {"grid", "panic"}
resize_exact(w, h, rz) == IF w = 0 \/ h = 0 THEN rz ELSE "grid"

---------------------------------------------------------------------------
(* The ImageHash struct *)

ImageHash(bool_values, values, hash_size) ==
    [bool_values |-> bool_values, values |-> values, hash_size |-> hash_size]

\* the "no object" placeholder of an outcome that returns no ImageHash
NoHash == ImageHash(<<>>, <<>>, -1)

\* vec![v; n]
vec(v, n) == [k \in 1..n |-> v]

\* u8 bitwise or:  a | b
RECURSIVE BitOr(_, _)
BitOr(a, b) ==
    IF a = 0 THEN b
    ELSE IF b = 0 THEN a
    ELSE (IF a % 2 = 1 \/ b % 2 = 1 THEN 1 ELSE 0) + 2 * BitOr(a \div 2, b \div 2)

\* u8 shift  v << s  for s in 0..7
Shl(v, s) == (v * 2 ^ s) % 256

(* The body every fill loop shares:                                        *)
(*     bool_result[c] = cmp;                                               *)
(*     if cmp { result[c / 8] |= 1 << (c % 8) }                            *)
(*     else   { result[c / 8] |= 0 << (c % 8) }                            *)
(* st holds the locals; an index outside a vector aborts the call at that  *)
(* statement, keeping what was written before it.                          *)
StoreBit(st, c, cmp) ==
    IF st.kind # "running" THEN st
    ELSE IF c >= Len(st.bool_result)
    THEN [st EXCEPT !.kind = "panic", !.why = "bool_result index out of bounds"]
    ELSE LET st1 == [st EXCEPT !.bool_result[c + 1] = cmp,
                               !.written = Append(@, c)]
         IN IF c \div 8 >= Len(st.result)
            THEN [st1 EXCEPT !.kind = "panic",
                             !.why = "result index out of bounds"]
            ELSE [st1 EXCEPT !.result[c \div 8 + 1] =
                                BitOr(@, Shl(IF cmp THEN 1 ELSE 0, c % 8))]

\* the locals of a hashing call before its fill loop
Locals(op, fpath, hash_size, highfreq_factor) ==
    [op |-> op, fpath |-> fpath, hash_size |-> hash_size,
     highfreq_factor |-> highfreq_factor,
     kind |-> "running", why |-> "",
     bool_result |-> <<>>, result |-> <<>>, written |-> <<>>,
     sum |-> 0, avg |-> 0, dct_arr |-> <<>>, ret |-> NoHash]

\* return Ok(ImageHash { bool_values: bool_result, values: result, hash_size })
Return(st) ==
    IF st.kind # "running" THEN st
    ELSE [st EXCEPT !.kind = "ok",
                    !.ret = ImageHash(st.bool_result, st.result, st.hash_size)]

\* return Err(PyValueError::new_err("Cannot open image."))
OpenErr(st) == [st EXCEPT !.kind = "err", !.why = "Cannot open image."]

Panic(st, why) == [st EXCEPT !.kind = "panic", !.why = why]

---------------------------------------------------------------------------
(* ahash *)

\* sum of the luminances of the first n pixels of the grid, row-major.  The
\* source keeps it in a u32; it is at most 255 * hash_size^2, which stays
\* below 2^32 for every hash_size the model reaches.
RECURSIVE ahash_sum(_, _, _)
ahash_sum(fpath, hash_size, n) ==
    IF n = 0 THEN 0
    ELSE ahash_sum(fpath, hash_size, n - 1)
         + to_luma(fpath, (n - 1) % hash_size, (n - 1) \div hash_size)

\* ahash_cmp with the comparison weakened to >=
ahash_cmp_ge(px, avg) == px >= avg

\* let cmp = u32::from(px) > avg
ahash_cmp(px, avg) == px > avg

\* for row_pxs in pixels { for px in row_pxs { ...; c += 1 } }
RECURSIVE ahash_fill(_, _)
ahash_fill(st, c) ==
    IF c = st.hash_size * st.hash_size \/ st.kind # "running" THEN st
    ELSE LET px == to_luma(st.fpath, c % st.hash_size, c \div st.hash_size)
         IN ahash_fill(StoreBit(st, c, ahash_cmp(px, st.avg)), c + 1)

ahash(fpath, hash_size, rz) ==
    LET st0 == Locals("ahash", fpath, hash_size, 0)
        hashpow == hash_size * hash_size
    IN IF open(fpath) = "Err" THEN OpenErr(st0)
       ELSE IF resize_exact(hash_size, hash_size, rz) = "panic"
       THEN Panic(st0, "resize")
       ELSE IF hashpow = 0 THEN Panic(st0, "attempt to divide by zero")
       ELSE LET sum == ahash_sum(fpath, hash_size, hashpow)
                st1 == [st0 EXCEPT !.sum = sum,
                                   !.avg = sum \div hashpow,
                                   !.bool_result = vec(FALSE, hashpow),
                                   !.result = vec(0, hashpow \div 8)]
            IN Return(ahash_fill(st1, 0))

---------------------------------------------------------------------------
(* dhash *)

\* let c = (y * 8 + x) as usize
dhash_c(x, y) == y * 8 + x

\* let cmp = left_pixel > right_pixel
dhash_cmp(fpath, x, y) == to_luma(fpath, x, y) > to_luma(fpath, x + 1, y)

\* while y < hash_size { while x < hash_size { ... } }; n counts the cells
\* visited, so y = n / hash_size and x = n % hash_size
RECURSIVE dhash_fill(_, _)
dhash_fill(st, n) ==
    IF n = st.hash_size * st.hash_size \/ st.kind # "running" THEN st
    ELSE LET x == n % st.hash_size
             y == n \div st.hash_size
         IN dhash_fill(StoreBit(st, dhash_c(x, y), dhash_cmp(st.fpath, x, y)),
                       n + 1)

dhash(fpath, hash_size) ==
    LET st0 == Locals("dhash", fpath, hash_size, 0)
        hashpow == hash_size * hash_size
    IN IF open(fpath) = "Err" THEN OpenErr(st0)
       ELSE LET st1 == [st0 EXCEPT !.bool_result = vec(FALSE, hashpow),
                                   !.result = vec(0, hashpow \div 8)]
            IN Return(dhash_fill(st1, 0))

---------------------------------------------------------------------------
(* phash *)

(* The transform sums f64 products value * cos(PI / N * (n + 0.5) * k).    *)
(* The sums are not computed here: a coefficient is represented by the     *)
(* frequency index k it was computed with.  When every product is 0.0 (no  *)
(* pixel at all, or every luminance 0) each sum and the average are 0.0    *)
(* and the comparison 0.0 > 0.0 is false; otherwise which coefficients     *)
(* exceed the average is an input of the call, one of Exceeds.             *)

Exceeds == {"none", "dc", "odd"}

\* phash_k with the column counted from 1
phash_k_from1(i, j, img_size) == i * img_size + j + 1

\* let k = (i * img_size + j) as f64
phash_k(i, j, img_size) == i * img_size + j

\* for i in 0..hash_size { for j in 0..hash_size { ...; dct_arr[i][j] = sum } }
phash_dct(hash_size, img_size) ==
    [i \in 1..hash_size |->
        [j \in 1..hash_size |-> phash_k(i - 1, j - 1, img_size)]]

\* every sum is exactly 0.0
phash_flat(fpath, img_size) == img_size = 0 \/ fpath = "black"

\* let cmp = dct_arr[i][j] > avg
phash_cmp(st, i, j, ex) ==
    LET k == st.dct_arr[i + 1][j + 1]
    IN IF phash_flat(st.fpath, st.hash_size * st.highfreq_factor) THEN FALSE
       ELSE CASE ex = "none" -> FALSE
              [] ex = "dc"   -> k = 0
              [] ex = "odd"  -> k % 2 = 1

\* for i in 0..hash_size { for j in 0..hash_size { ...; c += 1 } }
RECURSIVE phash_fill(_, _, _)
phash_fill(st, c, ex) ==
    IF c = st.hash_size * st.hash_size \/ st.kind # "running" THEN st
    ELSE LET i == c \div st.hash_size
             j == c % st.hash_size
         IN phash_fill(StoreBit(st, c, phash_cmp(st, i, j, ex)), c + 1, ex)

phash(fpath, hash_size, highfreq_factor, rz, ex) ==
    LET st0 == Locals("phash", fpath, hash_size, highfreq_factor)
        img_size == hash_size * highfreq_factor
        hashpow == hash_size * hash_size
    IN IF open(fpath) = "Err" THEN OpenErr(st0)
       ELSE IF resize_exact(img_size, img_size, rz) = "panic"
       THEN Panic(st0, "resize")
       ELSE LET st1 == [st0 EXCEPT !.dct_arr = phash_dct(hash_size, img_size),
                                   !.bool_result = vec(FALSE, hashpow),
                                   !.result = vec(0, hashpow \div 8)]
            IN Return(phash_fill(st1, 0, ex))

---------------------------------------------------------------------------
(* ImageHash::distance *)

\* distance_mismatch rejecting only a smaller self
distance_mismatch_lt(self, other) == self.hash_size < other.hash_size

\* if self.hash_size != other.hash_size
distance_mismatch(self, other) == self.hash_size # other.hash_size

\* distance_bound without the square
distance_bound_side(hash_size) == hash_size

\* while i < self.hash_size.pow(2)
distance_bound(hash_size) == hash_size * hash_size

\* distance_differs counting the equal positions
distance_differs_eq(a, b) == a = b

\* self.bool_values.get(i).unwrap() != other.bool_values.get(i).unwrap()
distance_differs(a, b) == a # b

\* the record of a distance call
DistCall(self, other) ==
    [op |-> "distance", self |-> self, other |-> other,
     kind |-> "running", why |-> "", count |-> 0, i |-> 0]

\* the while loop; .get(i) is None past the end of a vector and unwrap aborts
RECURSIVE distance_loop(_)
distance_loop(st) ==
    IF ~(st.i < distance_bound(st.self.hash_size)) THEN [st EXCEPT !.kind = "ok"]
    ELSE IF st.i >= Len(st.self.bool_values) \/ st.i >= Len(st.other.bool_values)
    THEN [st EXCEPT !.kind = "panic", !.why = "unwrap on None"]
    ELSE distance_loop(
            [st EXCEPT !.count = IF distance_differs(st.self.bool_values[st.i + 1],
                                                     st.other.bool_values[st.i + 1])
                                 THEN @ + 1 ELSE @,
                       !.i = @ + 1])

distance(self, other) ==
    IF distance_mismatch(self, other)
    THEN [DistCall(self, other) EXCEPT !.kind = "err", !.why = "Unmatch size"]
    ELSE distance_loop(DistCall(self, other))

---------------------------------------------------------------------------
(* The calls *)

NoCall == [Locals("none", "black", 0, 0) EXCEPT !.kind = "none"]

Init ==
    /\ heap = <<>>
    /\ last = NoCall

\* every outcome a call of ahash can have
AhashCalls ==
    {ahash(fpath, hash_size, rz) :
        fpath \in Files, hash_size \in HashSizes, rz \in ResizeOutcomes}

\* every outcome a call of dhash can have
DhashCalls == {dhash(fpath, hash_size) : fpath \in Files, hash_size \in HashSizes}

\* every outcome a call of phash can have
PhashCalls ==
    UNION {{phash(fpath, hash_size, highfreq_factor, rz, ex) :
                fpath \in Files, hash_size \in HashSizes, rz \in ResizeOutcomes} :
           highfreq_factor \in Factors, ex \in Exceeds}

Ahash ==
    /\ last' \in AhashCalls
    /\ UNCHANGED heap

Dhash ==
    /\ last' \in DhashCalls
    /\ UNCHANGED heap

Phash ==
    /\ last' \in PhashCalls
    /\ UNCHANGED heap

Next == Ahash \/ Dhash \/ Phash

Spec == Init /\ [][Next]_vars

---------------------------------------------------------------------------
(* Distance calls on objects the caller holds.  An ImageHash has no        *)
(* constructor of its own: every object is one a hashing call returned.    *)

Objects ==
    {o.ret : o \in {s \in AhashCalls \cup DhashCalls \cup PhashCalls : s.kind = "ok"}}

InitDist ==
    /\ heap \in Objects \X Objects \X Objects
    /\ last = NoCall

Distance ==
    \E a \in DOMAIN heap, b \in DOMAIN heap :
        /\ last' = distance(heap[a], heap[b])
        /\ UNCHANGED heap

NextDist == Distance

SpecDist == InitDist /\ [][NextDist]_vars

---------------------------------------------------------------------------
(* Properties *)

HashOps == {"ahash", "dhash", "phash"}

\* hash_size^2 and the cells of the logical grid, as source indices
Cells(n) == 0..(n * n - 1)

\* bit (c mod 8) of packed byte (c div 8), least significant bit first; a
\* byte the vector does not have holds no bit
PackedBit(values, c) ==
    /\ c \div 8 < Len(values)
    /\ (values[c \div 8 + 1] \div 2 ^ (c % 8)) % 2 = 1

\* the call got past image::open and resize_exact
Resized(call) == call.kind \in {"ok", "panic"} /\ call.why # "resize"

\* luminance of cell c of the n x n grid, row-major
Lum(fpath, n, c) == to_luma(fpath, c % n, c \div n)

\* the n x n grid has one luminance everywhere
Solid(fpath, n) == \A c \in Cells(n) : Lum(fpath, n, c) = Lum(fpath, n, 0)

\* sum of the luminances of a set of cells
RECURSIVE LumSum(_, _, _)
LumSum(fpath, n, S) ==
    IF S = {} THEN 0
    ELSE LET c == CHOOSE d \in S : TRUE
         IN Lum(fpath, n, c) + LumSum(fpath, n, S \ {c})

Range(seq) == {seq[k] : k \in DOMAIN seq}

(* C1: every ImageHash that ahash, dhash or phash returns for a hash_size  *)
(* N >= 1 has N*N bits and ceil(N*N/8) packed bytes.                       *)
C1_Lengths ==
    (last.op \in HashOps /\ last.kind = "ok" /\ last.hash_size >= 1)
    => /\ Len(last.ret.bool_values) = last.hash_size * last.hash_size
       /\ Len(last.ret.values) = (last.hash_size * last.hash_size + 7) \div 8

(* C2: in every ImageHash that ahash, dhash or phash returns, bit c of     *)
(* bool_values equals bit (c mod 8) of byte (c div 8) of values, for every *)
(* c below hash_size^2.                                                    *)
C2_Packing ==
    (last.op \in HashOps /\ last.kind = "ok")
    => \A c \in Cells(last.hash_size) :
          last.ret.bool_values[c + 1] = PackedBit(last.ret.values, c)

(* C3: on a decodable image ahash and dhash return an ImageHash for every  *)
(* hash_size N >= 1; no step of the fill loop aborts.                      *)
C3_AlwaysSucceeds ==
    (last.op \in {"ahash", "dhash"} /\ last.fpath \in Pictures
        /\ last.hash_size >= 1)
    => last.kind = "ok"

(* C7: hash_size = 0 (and, for phash, highfreq_factor = 0) on a decodable  *)
(* image is answered with an error value: no abort and no ImageHash.       *)
C7_InvalidArgument ==
    (last.op \in HashOps /\ last.fpath \in Pictures
        /\ (last.hash_size = 0
            \/ (last.op = "phash" /\ last.highfreq_factor = 0)))
    => last.kind = "err"

(* C8: every bit ahash computes is 1 exactly when the pixel's luminance is *)
(* strictly above the mean, the sum of the N^2 luminances divided by N^2   *)
(* (integer division, which for integer luminances decides the same as the *)
(* exact mean); a returned hash covers all N^2 cells, and for a grid of    *)
(* one luminance all its bits and bytes are 0.                             *)
C8_StrictAboveMean ==
    (last.op = "ahash" /\ Resized(last) /\ last.hash_size >= 1)
    => LET n == last.hash_size
           total == LumSum(last.fpath, n, Cells(n))
       IN /\ last.sum = total
          /\ last.avg = total \div (n * n)
          /\ \A c \in Range(last.written) :
                /\ last.bool_result[c + 1] = (Lum(last.fpath, n, c) > last.avg)
                /\ last.bool_result[c + 1] = (Lum(last.fpath, n, c) * n * n > total)
          /\ last.kind = "ok"
             => /\ Range(last.written) = Cells(n)
                /\ last.ret.bool_values = last.bool_result
                /\ Solid(last.fpath, n)
                   => /\ \A c \in Cells(n) : ~last.ret.bool_values[c + 1]
                      /\ \A b \in DOMAIN last.ret.values : last.ret.values[b] = 0

\* ahash returned the hash of an all-white 4 x 4 or larger grid
C8_Witness ==
    /\ last.op = "ahash" /\ last.kind = "ok" /\ last.hash_size >= 4
    /\ Solid(last.fpath, last.hash_size)
    /\ Lum(last.fpath, last.hash_size, 0) = 255
    /\ last.avg = 255

(* C9: in the ImageHash dhash returns, the bit at index y*N + x is 1       *)
(* exactly when luminance(x, y) > luminance(x+1, y), for every row y and   *)
(* column x below N.                                                       *)
C9_RowMajorIndex ==
    (last.op = "dhash" /\ last.kind = "ok")
    => \A y \in 0..(last.hash_size - 1), x \in 0..(last.hash_size - 1) :
          last.ret.bool_values[y * last.hash_size + x + 1]
            = (to_luma(last.fpath, x, y) > to_luma(last.fpath, x + 1, y))

(* C10 as stated: with M = N*f, the coefficient at matrix cell (i, j-1)    *)
(* has frequency index i*M + j for j in 1..N, so i*M itself is never used. *)
C10_SkipsFirstColumn ==
    (last.op = "phash" /\ last.kind = "ok" /\ last.highfreq_factor >= 1)
    => LET n == last.hash_size
           m == last.hash_size * last.highfreq_factor
       IN \A i \in 0..(n - 1), j \in 1..n : last.dct_arr[i + 1][j] = i * m + j

(* C10 amended: the coefficient at matrix cell (i, j) has frequency index  *)
(* i*M + j for j in 0..N-1, so i*M is used in every row and the indices    *)
(* feeding the matrix are { i*M + j : 0 <= i < N, 0 <= j < N }.            *)
C10_FromFirstColumn ==
    (last.op = "phash" /\ Resized(last))
    => LET n == last.hash_size
           m == last.hash_size * last.highfreq_factor
       IN /\ Len(last.dct_arr) = n
          /\ \A i \in 0..(n - 1) :
                /\ Len(last.dct_arr[i + 1]) = n
                /\ last.dct_arr[i + 1][1] = i * m
                /\ \A j \in 0..(n - 1) : last.dct_arr[i + 1][j + 1] = i * m + j
          /\ UNION {Range(last.dct_arr[r]) : r \in DOMAIN last.dct_arr}
             = {i * m + j : i \in 0..(n - 1), j \in 0..(n - 1)}

\* phash returned for hash_size 4 and highfreq_factor 2; row 1 starts at 8
C10_Witness ==
    /\ last.op = "phash" /\ last.kind = "ok"
    /\ last.hash_size = 4 /\ last.highfreq_factor = 2
    /\ last.dct_arr[2][1] = 8

(* C4: distance on two objects of different hash_size returns the error,   *)
(* before any position is compared, and both objects are still as held.    *)
C4_SizeMismatch ==
    (last.op = "distance" /\ last.self.hash_size # last.other.hash_size)
    => /\ last.kind = "err"
       /\ last.i = 0 /\ last.count = 0
       /\ \E a \in DOMAIN heap, b \in DOMAIN heap :
             heap[a] = last.self /\ heap[b] = last.other

\* distance was called on an 8 x 8 and a 9 x 9 hash
C4_Witness ==
    /\ last.op = "distance" /\ last.kind = "err"
    /\ last.self.hash_size = 8 /\ last.other.hash_size = 9

(* C5: distance on two objects of equal hash_size N returns the number of  *)
(* positions below N^2 where their bits differ, a number in 0..N^2, after  *)
(* visiting each position once.                                            *)
C5_Hamming ==
    (last.op = "distance" /\ last.self.hash_size = last.other.hash_size)
    => LET n == last.self.hash_size
       IN /\ last.kind = "ok"
          /\ last.count = Cardinality({c \in Cells(n) :
                last.self.bool_values[c + 1] # last.other.bool_values[c + 1]})
          /\ last.count \in 0..(n * n)
          /\ last.i = n * n

\* two different hashes of one size, some but not all bits differing
C5_Witness ==
    /\ last.op = "distance" /\ last.kind = "ok"
    /\ last.self.hash_size >= 4
    /\ last.count > 0
    /\ last.count < last.self.hash_size * last.self.hash_size

(* C6: for three objects A, B, C of equal hash_size,                       *)
(* distance(A, B) <= distance(A, C) + distance(C, B).                      *)
C6_Triangle ==
    (heap # <<>> /\ heap[1].hash_size = heap[2].hash_size
        /\ heap[1].hash_size = heap[3].hash_size)
    => LET ab == distance(heap[1], heap[2])
           ac == distance(heap[1], heap[3])
           cb == distance(heap[3], heap[2])
       IN /\ ab.kind = "ok" /\ ac.kind = "ok" /\ cb.kind = "ok"
          /\ ab.count <= ac.count + cb.count

\* three different hashes of one size, C between A and B, after a call
C6_Witness ==
    /\ heap # <<>> /\ last.op = "distance"
    /\ heap[1].hash_size = heap[2].hash_size
    /\ heap[1].hash_size = heap[3].hash_size
    /\ heap[1] # heap[2] /\ heap[1] # heap[3] /\ heap[2] # heap[3]
    /\ distance(heap[3], heap[2]).count > 0
    /\ distance(heap[1], heap[3]).count > 0
    /\ distance(heap[1], heap[2]).count
       = distance(heap[1], heap[3]).count + distance(heap[3], heap[2]).count

===========================================================================
